---- MODULE Spec2Model ----
(***************************************************************************)
(* A model of beetsplug/import_mtag.py: the m-TAG sidecar loader            *)
(* (MTagLoader), the tag converters (TAGS, DEPENDENT_TAGS) and the          *)
(* directory walk of MTagImporter._import_mtags.                            *)
(*                                                                         *)
(* Representation.  A Python str is a sequence of atoms.  The atoms of a    *)
(* tag value are its characters (<<"1","9","9","9">> is "1999"); the atoms  *)
(* of a path or of a path reference are its path components and the        *)
(* separator "|" (<<"sub","g.tags","|","2">> is "sub/g.tags|2", and a       *)
(* leading "/" atom makes the path absolute).  A dict key is one atom.      *)
(* A Python value is a record [t |-> type, v |-> payload]; an exception    *)
(* that leaves a function is the value Raise(kind).                        *)
(***************************************************************************)
EXTENDS Integers, Sequences, FiniteSets, TLC

VARIABLES
    files,      \* the sidecar files on disk: path |-> [json, obj]
    lib,        \* the library: the albums handed to lib.add_album, in order
    paths,      \* _import_mtags: the work queue of pending directories
    dir,        \* _import_mtags: the directory p being iterated, or NoDir
    children,   \* _import_mtags: the children of p that iterdir() has yet to give
    loader,     \* the MTagLoader of the file being read, or NoLoader
    al,         \* _import_mtags: the items collected for the file being read
    status,     \* "running", "done", or the exception that left _import_mtags
    log,        \* what loader.items() did for each element of the file being read
    processed   \* the files a loader was created for

vars == <<files, lib, paths, dir, children, loader, al, status, log, processed>>

(***************************************************************************)
(* Bounds of the model                                                     *)
(***************************************************************************)
\* the longest JSON array a reference-rich sidecar file holds
MaxElems == 2
\* the most elements two reference-rich sidecar files hold together
MaxRefs == 3
\* the longest JSON array a tag-rich sidecar file holds
MaxTagElems == 3

(***************************************************************************)
(* Python values                                                           *)
(***************************************************************************)
Str(s) == [t |-> "str", v |-> s]
List(l) == [t |-> "list", v |-> l]
IntVal(n) == [t |-> "int", v |-> n]
Bool(b) == [t |-> "bool", v |-> b]
Float(m, e) == [t |-> "float", v |-> <<m, e>>]
None == [t |-> "none", v |-> <<>>]
Raise(kind) == [t |-> "raise", v |-> kind]
Raised(x) == x.t = "raise"
IsRaise(x, kind) == x.t = "raise" /\ x.v = kind

Last(s) == s[Len(s)]
Front(s) == SubSeq(s, 1, Len(s) - 1)
MinOf(S) == CHOOSE x \in S : \A y \in S : x <= y
MaxOf(S) == CHOOSE x \in S : \A y \in S : y <= x

\* dict item assignment d[k] = v
Put(d, k, v) == [x \in DOMAIN d \cup {k} |-> IF x = k THEN v ELSE d[x]]
\* del d[k]
Del(d, k) == [x \in DOMAIN d \ {k} |-> d[x]]
EmptyDict == [x \in {} |-> None]

(***************************************************************************)
(* str methods and the builtins int() and float()                          *)
(***************************************************************************)
\* str.casefold, atom by atom: the cased atoms the model uses
casefoldAtom(a) ==
    CASE a = "N" -> "n" [] a = "O" -> "o" [] a = "F" -> "f" [] a = "A" -> "a"
      [] a = "L" -> "l" [] a = "S" -> "s" [] a = "E" -> "e" [] a = "Y" -> "y"
      [] a = "Genre" -> "genre" [] a = "GENRE" -> "genre"
      [] a = "Track" -> "track" [] a = "Date" -> "date"
      [] OTHER -> a

casefold(s) == [i \in 1..Len(s) |-> casefoldAtom(s[i])]

Digits == {"0", "1", "2", "3", "4", "5", "6", "7", "8", "9"}

DigitVal(c) ==
    CASE c = "0" -> 0 [] c = "1" -> 1 [] c = "2" -> 2 [] c = "3" -> 3
      [] c = "4" -> 4 [] c = "5" -> 5 [] c = "6" -> 6 [] c = "7" -> 7
      [] c = "8" -> 8 [] c = "9" -> 9

AllDigits(s) == Len(s) > 0 /\ \A i \in 1..Len(s) : s[i] \in Digits

RECURSIVE DigitsValue(_)
DigitsValue(s) ==
    IF s = <<>> THEN 0 ELSE 10 * DigitsValue(Front(s)) + DigitVal(Last(s))

\* str.strip of blanks
strip(s) ==
    LET idx == {i \in 1..Len(s) : s[i] # " "}
    IN  IF idx = {} THEN <<>> ELSE SubSeq(s, MinOf(idx), MaxOf(idx))

\* str.split(sep): the segments between the occurrences of sep
RECURSIVE split(_, _)
split(s, sep) ==
    IF \A i \in 1..Len(s) : s[i] # sep
    THEN <<s>>
    ELSE LET i == MinOf({j \in 1..Len(s) : s[j] = sep})
         IN  <<SubSeq(s, 1, i - 1)>> \o split(SubSeq(s, i + 1, Len(s)), sep)

\* int() of the digits after the sign
int_digits(sign, body) ==
    IF ~AllDigits(body) THEN Raise("ValueError")
    ELSE IntVal(sign * DigitsValue(body))

\* int() of a stripped str: an optionally signed run of digits
int_str(s) ==
    IF Len(s) > 0 /\ s[1] \in {"-", "+"}
    THEN int_digits(IF s[1] = "-" THEN 0 - 1 ELSE 1, Tail(s))
    ELSE int_digits(1, s)

\* int(x): an int as it is, a str parsed (ValueError when it is no integer),
\* TypeError for a list
int(x) ==
    IF x.t = "int" THEN x
    ELSE IF x.t # "str" THEN Raise("TypeError")
    ELSE int_str(strip(x.v))

\* float() of the digits before and after the point: the value is
\* mantissa * 10^exponent
float_digits(sign, whole, frac) ==
    IF ~AllDigits(whole \o frac) THEN Raise("ValueError")
    ELSE Float(sign * DigitsValue(whole \o frac), 0 - Len(frac))

float_parts(sign, parts) ==
    IF Len(parts) > 2 THEN Raise("ValueError")
    ELSE float_digits(sign, parts[1], IF Len(parts) = 2 THEN parts[2] ELSE <<>>)

float_str(s) ==
    IF Len(s) > 0 /\ s[1] \in {"-", "+"}
    THEN float_parts(IF s[1] = "-" THEN 0 - 1 ELSE 1, split(Tail(s), "."))
    ELSE float_parts(1, split(s, "."))

\* float(x): sign, digits, and an optional "." and more digits
float(x) ==
    IF x.t = "int" THEN Float(x.v, 0)
    ELSE IF x.t # "str" THEN Raise("TypeError")
    ELSE float_str(strip(x.v))

(***************************************************************************)
(* pathlib                                                                 *)
(***************************************************************************)
\* Path.parent
parent(p) == IF Len(p) <= 1 THEN p ELSE Front(p)

\* Path.__truediv__: an absolute right operand replaces the left one
join(a, b) == IF Len(b) > 0 /\ b[1] = "/" THEN b ELSE a \o b

\* Path.resolve of an absolute path on a disk without symlinks: ".." drops
\* the component before it and stays at the root
RECURSIVE normalize(_, _)
normalize(done, rest) ==
    IF rest = <<>> THEN done
    ELSE IF Head(rest) = ".."
         THEN normalize(IF Len(done) > 1 THEN Front(done) ELSE done, Tail(rest))
         ELSE normalize(Append(done, Head(rest)), Tail(rest))

resolve(p) == normalize(<<"/">>, Tail(p))

\* str(path).endswith('.tags'): the file names of the model with that suffix
endswith_tags(p) == Last(p) \in {"f.tags", "g.tags", "h.tags"}

(***************************************************************************)
(* The disk                                                                *)
(***************************************************************************)
Root == <<"/">>
SubDir == <<"/", "sub">>
FPath == <<"/", "f.tags">>
GPath == <<"/", "sub", "g.tags">>

\* Path.iterdir and Path.is_dir
Listing(d) ==
    IF d = Root THEN {FPath, SubDir}
    ELSE IF d = SubDir THEN {GPath}
    ELSE {}

is_dir(p) == p \in {Root, SubDir}

\* a file that holds a JSON array, and one that open() or json.load rejects
JsonFile(obj) == [json |-> TRUE, obj |-> obj]
NotJson == [json |-> FALSE, obj |-> <<>>]

(***************************************************************************)
(* MTagLoader                                                              *)
(***************************************************************************)
EmptyList == List(<<>>)

\* the index of the last pair of the object whose key folds to k
last_of(item, k) == MaxOf({i \in 1..Len(item) : casefoldAtom(item[i][1]) = k})

\* {k.casefold(): v for k, v in data.items()}: a later pair of the object
\* replaces an earlier one with the same folded key
folded(item) ==
    [k \in {casefoldAtom(item[i][1]) : i \in 1..Len(item)} |-> item[last_of(item, k)][2]]

\* dict.update
update(d, new) ==
    [k \in DOMAIN d \cup DOMAIN new |-> IF k \in DOMAIN new THEN new[k] ELSE d[k]]

\* the loop of _update that deletes the keys whose value is []
prune(d) == [k \in {x \in DOMAIN d : d[x] # EmptyList} |-> d[k]]

\* _update without the loop that deletes the empty lists
update_only(tagset, item) == update(tagset, folded(item))

\* MTagLoader._update: self._tagset after the call, which is also the dict
\* the call returns
_update(tagset, item) == prune(update(tagset, folded(item)))

\* items() without its except clause: the failure to load leaves items()
load_raises(path) ==
    IF path \in DOMAIN files /\ files[path].json
    THEN [raised |-> FALSE, obj |-> files[path].obj]
    ELSE [raised |-> TRUE, obj |-> <<>>]

\* the try of MTagLoader.items: the parsed array, or [] when the file does
\* not load
load(path) ==
    IF path \in DOMAIN files /\ files[path].json
    THEN [raised |-> FALSE, obj |-> files[path].obj]
    ELSE [raised |-> FALSE, obj |-> <<>>]

RECURSIVE _resolve_path(_, _, _)
RECURSIVE scan(_, _, _, _, _, _, _)
RECURSIVE scan_turn(_, _, _, _, _, _, _)

\* the rest of a turn of the for loop of MTagLoader.items once _update has
\* returned data: data.pop('@') and self._resolve_path
popped(self, k, data, stack) ==
    [tagset |-> data,
     ref |-> IF "@" \in DOMAIN data THEN data["@"] ELSE None,
     data |-> IF "@" \in DOMAIN data THEN Del(data, "@") ELSE data,
     out |-> IF "@" \notin DOMAIN data THEN Raise("KeyError")
             ELSE IF <<self, k>> \in stack THEN Raise("RecursionError")
             ELSE _resolve_path(self, data["@"].v, stack \cup {<<self, k>>})]

\* one turn of the for loop of MTagLoader.items, for element k of the file
\* of the loader at path self: self._tagset afterwards, and what the turn
\* ends with: the resolved path (a yield), NotImplementedError (continue),
\* or the exception that leaves items().  stack holds the elements whose
\* turn is being computed: a turn that needs its own result again never
\* ends (CPython stops it with RecursionError).
items_turn(self, k, tagset, item, stack) == popped(self, k, _update(tagset, item), stack)

\* the body of the for loop of _resolve_path for what the turn of element k
\* of resolver.items() ended with
scan_turn(self, obj, k, count, sub, stack, turn) ==
    IF IsRaise(turn.out, "NotImplementedError")
    THEN scan(self, obj, k + 1, turn.tagset, count, sub, stack)
    ELSE IF Raised(turn.out) THEN turn.out
    ELSE IF count + 1 = sub THEN _resolve_path(self, turn.out.v, stack)
    ELSE scan(self, obj, k + 1, turn.tagset, count + 1, sub, stack)

\* the for loop of _resolve_path over resolver.items(), from element k of
\* obj on, count entries having been yielded so far
scan(self, obj, k, tagset, count, sub, stack) ==
    IF k > Len(obj) THEN Raise("LookupError")
    ELSE scan_turn(self, obj, k, count, sub, stack,
                   items_turn(self, k, tagset, obj[k], stack))

\* _resolve_path from resolver = self.__class__(str(path)) on
resolve_items(p, loaded, sub, stack) ==
    IF loaded.raised THEN Raise("JSONDecodeError")
    ELSE scan(p, loaded.obj, 1, EmptyDict, 0, sub, stack)

\* _resolve_path without its except clause: the ValueError of int() is
\* not turned into NotImplementedError
resolve_sub_uncaught(sub, p, stack) ==
    IF Raised(sub) THEN sub
    ELSE IF endswith_tags(p) THEN resolve_items(p, load(p), sub.v, stack)
    ELSE Raise("Exception")

\* _resolve_path for a reference with an index
resolve_sub(sub, p, stack) ==
    IF Raised(sub) THEN Raise("NotImplementedError")
    ELSE IF endswith_tags(p) THEN resolve_items(p, load(p), sub.v, stack)
    ELSE Raise("Exception")

\* _resolve_path once the reference is split at its bars
resolve_parts(self, parts, stack) ==
    IF Len(parts) > 2 THEN Raise("ValueError")
    ELSE IF Len(parts) = 2
         THEN resolve_sub(int(Str(parts[2])), resolve(join(parent(self), parts[1])), stack)
    ELSE Str(resolve(join(parent(self), parts[1])))

\* MTagLoader._resolve_path of the loader at path self
_resolve_path(self, path, stack) == resolve_parts(self, split(path, "|"), stack)

(***************************************************************************)
(* Converters                                                              *)
(***************************************************************************)
\* datetime.MINYEAR and datetime.MAXYEAR: date() raises ValueError outside
MINYEAR == 1
MAXYEAR == 9999

DaysIn(y, m) ==
    IF m \in {4, 6, 9, 11} THEN 30
    ELSE IF m # 2 THEN 31
    ELSE IF y % 4 = 0 /\ (y % 100 # 0 \/ y % 400 = 0) THEN 29 ELSE 28

ValidDate(y, m, d) ==
    /\ y \in MINYEAR..MAXYEAR
    /\ m \in 1..12
    /\ d \in 1..DaysIn(y, m)

MTagDate(y, m, d, flag) ==
    [t |-> "MTagDate", v |-> [year |-> y, month |-> m, day |-> d, mtag_date |-> flag]]
Date(y, m, d) == [t |-> "date", v |-> [year |-> y, month |-> m, day |-> d]]

date_of(y, m, d) == IF ValidDate(y, m, d) THEN Date(y, m, d) ELSE Raise("ValueError")

IsoFields(f) ==
    /\ Len(f) = 3 /\ Len(f[1]) = 4 /\ Len(f[2]) = 2 /\ Len(f[3]) = 2
    /\ \A i \in 1..3 : AllDigits(f[i])

dateutil_fields(s, f) ==
    IF IsoFields(f)
    THEN date_of(DigitsValue(f[1]), DigitsValue(f[2]), DigitsValue(f[3]))
    ELSE IF Len(s) = 8 /\ AllDigits(s)
    THEN date_of(DigitsValue(SubSeq(s, 1, 4)), DigitsValue(SubSeq(s, 5, 6)),
                 DigitsValue(SubSeq(s, 7, 8)))
    ELSE Raise("ValueError")

\* dateutil.parser.parse on the two shapes of date string the model draws,
\* YYYY-MM-DD and YYYYMMDD; ParserError (a ValueError) for any other str
dateutil_parse(x) ==
    IF x.t # "str" THEN Raise("TypeError") ELSE dateutil_fields(x.v, split(x.v, "-"))

db_hits(s) ==
    {i \in 1..Len(s) - 2 : s[i] = " " /\ s[i + 1] \in {"d", "D"} /\ s[i + 2] \in {"b", "B"}}

db_cut(s, i) == SubSeq(s, 1, i - 1) \o SubSeq(s, i + 3, Len(s))

\* re.sub(r'(.*) [Dd][Bb]', r'\1', s): the greedy (.*) runs to the last
\* " dB" of s, which is dropped; s without one is returned as it is
re_sub_db(s) == IF db_hits(s) = {} THEN s ELSE db_cut(s, MaxOf(db_hits(s)))

Converter_decode(data) == data

IntConverter_decode(data) == int(data)

FloatConverter_decode(data) == float(data)

DbConverter_decode(data) ==
    IF data.t # "str" THEN Raise("TypeError") ELSE float(Str(re_sub_db(data.v)))

ListConverter_decode(data) ==
    IF data.t # "list" THEN data
    ELSE IF data.v = <<>> THEN Raise("IndexError")
    ELSE data.v[1]

BoolConverter_decode(data) ==
    IF data.t # "str" THEN Raise("AttributeError")
    ELSE Bool(casefold(data.v) \notin
                {<<>>, <<"0">>, <<"n", "o">>, <<"f", "a", "l", "s", "e">>})

\* the except branch of DateConverter.decode
date_parsed(v) ==
    IF Raised(v) THEN v ELSE MTagDate(v.v.year, v.v.month, v.v.day, TRUE)

\* DateConverter.decode once int(data) has returned or raised: the except
\* ValueError catches the failure of int() and the failure of the MTagDate
\* constructor alike
date_of_int(data, n) ==
    IF IsRaise(n, "TypeError") THEN n
    ELSE IF ~Raised(n) /\ n.v \in MINYEAR..MAXYEAR THEN MTagDate(n.v, 1, 1, FALSE)
    ELSE date_parsed(dateutil_parse(data))

DateConverter_decode(data) == date_of_int(data, int(data))

decode(conv, data) ==
    CASE conv = "Converter" -> Converter_decode(data)
      [] conv = "IntConverter" -> IntConverter_decode(data)
      [] conv = "FloatConverter" -> FloatConverter_decode(data)
      [] conv = "DbConverter" -> DbConverter_decode(data)
      [] conv = "ListConverter" -> ListConverter_decode(data)
      [] conv = "BoolConverter" -> BoolConverter_decode(data)
      [] conv = "DateConverter" -> DateConverter_decode(data)

\* Converter.get trying the aliases from the last one back
RECURSIVE get_backwards(_, _, _)
get_backwards(c, data, i) ==
    IF i > Len(c.tags) THEN None
    ELSE IF c.tags[Len(c.tags) + 1 - i] \in DOMAIN data
    THEN decode(c.conv, data[c.tags[Len(c.tags) + 1 - i]])
    ELSE get_backwards(c, data, i + 1)

\* Converter.get, from alias number i on
RECURSIVE get_from(_, _, _)
get_from(c, data, i) ==
    IF i > Len(c.tags) THEN None
    ELSE IF c.tags[i] \in DOMAIN data THEN decode(c.conv, data[c.tags[i]])
    ELSE get_from(c, data, i + 1)

Converter_get(c, data) == get_from(c, data, 1)

\* Month and Day without their test of _mtag_date
transform_unflagged(conv, v) ==
    CASE conv = "Year" -> IntVal(v.v.year)
      [] conv = "Month" -> IntVal(v.v.month)
      [] conv = "Day" -> IntVal(v.v.day)
      [] conv = "DateHack" -> Date(v.v.year, v.v.month, v.v.day)

\* Year.transform, Month.transform, Day.transform and DateHack.transform
transform(conv, v) ==
    CASE conv = "Year" -> IntVal(v.v.year)
      [] conv = "Month" -> IF v.v.mtag_date THEN IntVal(v.v.month) ELSE None
      [] conv = "Day" -> IF v.v.mtag_date THEN IntVal(v.v.day) ELSE None
      [] conv = "DateHack" -> Date(v.v.year, v.v.month, v.v.day)

\* DependentConverter.get
DependentConverter_get(c, context) ==
    IF c.dep \notin DOMAIN context THEN None ELSE transform(c.conv, context[c.dep])

Conv(tag, conv, tags) == [tag |-> tag, conv |-> conv, tags |-> tags]

AUDIO_FIELDS == <<"length", "bitrate", "format", "samplerate", "bitdepth", "channels">>

TAGS == <<
    Conv("title", "Converter", <<"title">>),
    Conv("artist", "ListConverter", <<"artist">>),
    Conv("album", "Converter", <<"album">>),
    Conv("genre", "ListConverter", <<"genres", "genre">>),
    Conv("lyricist", "Converter", <<"lyricist">>),
    Conv("composer", "ListConverter", <<"composer">>),
    Conv("composer_sort", "Converter", <<"composersort">>),
    Conv("arranger", "Converter", <<"arranger">>),
    Conv("grouping", "Converter", <<"grouping">>),
    Conv("track", "IntConverter", <<"track", "tracknumber">>),
    Conv("tracktotal", "IntConverter", <<"tracktotal", "trackc", "totaltracks">>),
    Conv("disc", "IntConverter", <<"disc", "discnumber">>),
    Conv("disctotal", "IntConverter", <<"disctotal", "discc", "totaldiscs">>),
    Conv("lyrics", "Converter", <<"lyrics", "unsyncedlyrics">>),
    Conv("comments", "Converter", <<"description", "comment">>),
    Conv("bpm", "IntConverter", <<"bpm">>),
    Conv("comp", "BoolConverter", <<"compilation">>),
    Conv("albumartist", "Converter", <<"albumartist", "album artist">>),
    Conv("albumtype", "Converter", <<"musicbrainz_albumtype">>),
    Conv("label", "ListConverter", <<"label", "publisher">>),
    Conv("artist_sort", "Converter", <<"artistsort">>),
    Conv("albumartist_sort", "Converter", <<"albumartistsort">>),
    Conv("asin", "Converter", <<"asin">>),
    Conv("catalognum", "Converter", <<"catalognumber">>),
    Conv("disctitle", "Converter", <<"discsubtitle">>),
    Conv("encoder", "Converter", <<"encodedby", "encoder">>),
    Conv("script", "Converter", <<"script">>),
    Conv("language", "Converter", <<"language">>),
    Conv("country", "Converter", <<"releasecountry">>),
    Conv("albumstatus", "Converter", <<"musicbrainz_albumstatus">>),
    Conv("media", "Converter", <<"media">>),
    Conv("albumdisambig", "Converter", <<"musicbrainz_albumcomment">>),
    Conv("date", "DateConverter", <<"date", "year">>),
    Conv("original_date", "DateConverter", <<"originaldate">>),
    Conv("artist_credit", "Converter", <<"artist_credit">>),
    Conv("albumartist_credit", "Converter", <<"albumartist_credit">>),
    Conv("mb_trackid", "Converter", <<"musicbrainz_trackid">>),
    Conv("mb_releasetrackid", "Converter", <<"musicbrainz_releasetrackid">>),
    Conv("mb_albumid", "Converter", <<"musicbrainz_albumid">>),
    Conv("mb_artistid", "Converter", <<"musicbrainz_artistid">>),
    Conv("mb_albumartistid", "Converter", <<"musicbrainz_albumartistid">>),
    Conv("mb_releasegroupid", "Converter", <<"musicbrainz_releasegroupid">>),
    Conv("acoustid_fingerprint", "Converter", <<"acoustid_fingerprint">>),
    Conv("acoustid_id", "Converter", <<"acoustid_id">>),
    Conv("rg_track_gain", "DbConverter", <<"replaygain_track_gain">>),
    Conv("rg_track_peak", "FloatConverter", <<"replaygain_track_peak">>),
    Conv("rg_album_gain", "DbConverter", <<"replaygain_album_gain">>),
    Conv("rg_album_peak", "FloatConverter", <<"replaygain_album_peak">>),
    Conv("r128_track_gain", "IntConverter", <<"r128_track_gain">>),
    Conv("r128_album_gain", "IntConverter", <<"r128_album_gain">>),
    Conv("initial_key", "Converter", <<"initialkey">>) >>

Dep(tag, conv, dep) == [tag |-> tag, conv |-> conv, dep |-> dep]

DEPENDENT_TAGS == <<
    Dep("year", "Year", "date"),
    Dep("month", "Month", "date"),
    Dep("day", "Day", "date"),
    Dep("original_year", "Year", "original_date"),
    Dep("original_month", "Month", "original_date"),
    Dep("original_day", "Day", "original_date"),
    Dep("date", "DateHack", "date"),
    Dep("original_date", "DateHack", "original_date") >>

RECURSIVE convert_tags(_, _, _, _)

\* the body of the loop over TAGS.items() for what converter.get returned
convert_tag(i, data, values, item, v) ==
    IF Raised(v) THEN [raise |-> v, values |-> values, item |-> item]
    ELSE IF v.t # "none"
    THEN convert_tags(i + 1, data, Put(values, TAGS[i].tag, v), Put(item, TAGS[i].tag, v))
    ELSE convert_tags(i + 1, data, values, item)

\* the loop over TAGS.items() of _import_mtags from entry i on: values and
\* item afterwards, or the exception a decode raised
convert_tags(i, data, values, item) ==
    IF i > Len(TAGS) THEN [raise |-> None, values |-> values, item |-> item]
    ELSE convert_tag(i, data, values, item, Converter_get(TAGS[i], data))

RECURSIVE convert_dependent(_, _, _)

convert_dependent_tag(i, values, item, v) ==
    convert_dependent(i + 1, values,
        IF v.t # "none" THEN Put(item, DEPENDENT_TAGS[i].tag, v) ELSE item)

\* the loop over DEPENDENT_TAGS.items() of _import_mtags from entry i on
convert_dependent(i, values, item) ==
    IF i > Len(DEPENDENT_TAGS) THEN item
    ELSE convert_dependent_tag(i, values, item,
                               DependentConverter_get(DEPENDENT_TAGS[i], values))

\* MediaFile(syspath(item.path)): the audio properties are opaque values
MediaFile(field) == [t |-> "mediafile", v |-> field]

\* item = Item(path=path) and the loop over AUDIO_FIELDS
audio_item(path) ==
    [f \in {"path"} \cup {AUDIO_FIELDS[i] : i \in 1..Len(AUDIO_FIELDS)} |->
        IF f = "path" THEN path ELSE MediaFile(f)]

\* the end of the body of the loop over loader.items(): the local values,
\* and the item appended to al or the exception a decode raised
converted(r) ==
    IF Raised(r.raise) THEN [item |-> r.raise, values |-> r.values]
    ELSE [item |-> [t |-> "Item", v |-> convert_dependent(1, r.values, r.item)],
          values |-> r.values]

\* the body of the loop over loader.items() from Item(path=path) on
new_item(path, data) == converted(convert_tags(1, data, EmptyDict, audio_item(path)))

(***************************************************************************)
(* MTagImporter._import_mtags                                              *)
(***************************************************************************)
NoDir == <<>>
NoLoader == [path |-> <<>>, tagset |-> EmptyDict, obj |-> <<>>, idx |-> 0]

Running == status = "running"
Reading == Running /\ loader # NoLoader
HasNext == Reading /\ loader.idx <= Len(loader.obj)

\* the turn of loader.items() for the next element of the file being read
Turn == items_turn(loader.path, loader.idx, loader.tagset, loader.obj[loader.idx], {})

\* no item was built in the turn
NoItem == [item |-> None, values |-> EmptyDict]

\* one entry of log: how the turn for an element ended ("skip", "raise", or
\* a yield: "present", "decode" when a converter raised, "item"), the
\* reference popped, the result of _resolve_path, self._tagset after the
\* turn, the data yielded, and the locals values and item of the loop body
Event(kind, turn, r) ==
    [kind |-> kind, ref |-> turn.ref, out |-> turn.out, tagset |-> turn.tagset,
     data |-> turn.data, values |-> r.values, item |-> r.item]

\* lib.items(PathQuery('path', path)) and the any() over its matches
present(path) ==
    \E i \in 1..Len(lib) : \E j \in 1..Len(lib[i].items) :
        lib[i].items[j]["path"] = path

Advance(kind, turn, r) ==
    /\ loader' = [loader EXCEPT !.tagset = turn.tagset, !.idx = @ + 1]
    /\ log' = Append(log, Event(kind, turn, r))

\* while paths: p = paths.pop(0), once the for loop over the last directory
\* has ended
PopDir ==
    /\ Running /\ loader = NoLoader /\ children = {} /\ paths # <<>>
    /\ dir' = Head(paths)
    /\ paths' = Tail(paths)
    /\ children' = Listing(Head(paths))
    /\ UNCHANGED <<files, lib, loader, al, status, log, processed>>

\* the while loop ends and _import_mtags returns
Return ==
    /\ Running /\ loader = NoLoader /\ children = {} /\ paths = <<>>
    /\ status' = "done"
    /\ dir' = NoDir
    /\ UNCHANGED <<files, lib, paths, children, loader, al, log, processed>>

\* iterdir() gives a directory: paths.append(child); continue
VisitDir ==
    /\ Running /\ loader = NoLoader
    /\ \E child \in children :
        /\ is_dir(child)
        /\ paths' = Append(paths, child)
        /\ children' = children \ {child}
    /\ UNCHANGED <<files, lib, dir, loader, al, status, log, processed>>

\* iterdir() gives a file: loader = MTagLoader(child); al = []; and the start
\* of loader.items(), which loads the file
OpenFile ==
    /\ Running /\ loader = NoLoader
    /\ \E child \in children :
        /\ ~is_dir(child)
        /\ children' = children \ {child}
        /\ processed' = processed \cup {child}
        /\ \E loaded \in {load(child)} :
            /\ status' = IF loaded.raised THEN "JSONDecodeError" ELSE status
            /\ loader' = [path |-> child, tagset |-> EmptyDict, obj |-> loaded.obj, idx |-> 1]
    /\ al' = <<>>
    /\ log' = <<>>
    /\ UNCHANGED <<files, lib, paths, dir>>

\* items(): _resolve_path raises NotImplementedError: continue
SkipEntry ==
    /\ HasNext
    /\ \E turn \in {Turn} :
        /\ IsRaise(turn.out, "NotImplementedError")
        /\ Advance("skip", turn, NoItem)
    /\ UNCHANGED <<files, lib, paths, dir, children, al, status, processed>>

\* items(): data.pop('@') or _resolve_path raises anything else, which
\* leaves items() and _import_mtags
ResolveRaise ==
    /\ HasNext
    /\ \E turn \in {Turn} :
        /\ Raised(turn.out) /\ ~IsRaise(turn.out, "NotImplementedError")
        /\ status' = turn.out.v
        /\ Advance("raise", turn, NoItem)
    /\ UNCHANGED <<files, lib, paths, dir, children, al, processed>>

\* items() yields an entry whose path the library already holds: continue
SkipPresent ==
    /\ HasNext
    /\ \E turn \in {Turn} :
        /\ ~Raised(turn.out) /\ present(turn.out)
        /\ Advance("present", turn, NoItem)
    /\ UNCHANGED <<files, lib, paths, dir, children, al, status, processed>>

\* items() yields an entry and a converter raises on its data, which leaves
\* _import_mtags
DecodeRaise ==
    /\ HasNext
    /\ \E turn \in {Turn} :
        /\ ~Raised(turn.out) /\ ~present(turn.out)
        /\ \E r \in {new_item(turn.out, turn.data)} :
            /\ Raised(r.item)
            /\ status' = r.item.v
            /\ Advance("decode", turn, r)
    /\ UNCHANGED <<files, lib, paths, dir, children, al, processed>>

\* items() yields an entry, which is converted and appended to al
AddItem ==
    /\ HasNext
    /\ \E turn \in {Turn} :
        /\ ~Raised(turn.out) /\ ~present(turn.out)
        /\ \E r \in {new_item(turn.out, turn.data)} :
            /\ ~Raised(r.item)
            /\ al' = Append(al, r.item.v)
            /\ Advance("item", turn, r)
    /\ UNCHANGED <<files, lib, paths, dir, children, status, processed>>

\* items() is exhausted and al is empty
EndFile ==
    /\ Reading /\ ~HasNext /\ al = <<>>
    /\ loader' = NoLoader
    /\ UNCHANGED <<files, lib, paths, dir, children, al, status, log, processed>>

\* items() is exhausted: lib.add_album(al)
AddAlbum ==
    /\ Reading /\ ~HasNext /\ al # <<>>
    /\ lib' = Append(lib, [file |-> loader.path, items |-> al])
    /\ loader' = NoLoader
    /\ al' = <<>>
    /\ UNCHANGED <<files, paths, dir, children, status, log, processed>>

\* lib.add_album(al) raises: post-mortem, then return
AddAlbumRaise ==
    /\ Reading /\ ~HasNext /\ al # <<>>
    /\ status' = "returned"
    /\ UNCHANGED <<files, lib, paths, dir, children, loader, al, log, processed>>

Next ==
    \/ PopDir
    \/ Return
    \/ VisitDir
    \/ OpenFile
    \/ SkipEntry
    \/ ResolveRaise
    \/ SkipPresent
    \/ DecodeRaise
    \/ AddItem
    \/ EndFile
    \/ AddAlbum
    \/ AddAlbumRaise

(***************************************************************************)
(* The disks the walk starts from                                          *)
(***************************************************************************)
SeqsUpTo(S, n) == UNION {[1..k -> S] : k \in 0..n}

Disk(f, g) == (FPath :> f) @@ (GPath :> g)

\* the '@' pair of a JSON object
At(ref) == <<"@", Str(ref)>>

\* Elements that differ in their reference: direct, indexed into g.tags,
\* indexed into f.tags, with an index that is no integer, with two bars,
\* indexed into a file that is no sidecar, and without '@'
RefElemsF == {
    <<At(<<"a.flac">>)>>,
    <<At(<<"sub", "g.tags", "|", "1">>)>>,
    <<At(<<"sub", "g.tags", "|", "2">>)>>,
    <<At(<<"..", "f.tags", "|", "1">>)>>,
    <<At(<<"x.zip", "|", "a">>)>>,
    <<At(<<"x.zip", "|", "a", "|", "b">>)>>,
    <<At(<<"a.flac", "|", "1">>)>>,
    <<>> }

RefElemsG == {
    <<At(<<"a.flac">>)>>,
    <<At(<<"g.tags", "|", "1">>)>>,
    <<At(<<"x.zip", "|", "a">>)>>,
    <<At(<<"a.flac", "|", "1">>)>>,
    <<>> }

DisksR ==
    {d \in {Disk(f, g) :
                f \in {NotJson} \cup {JsonFile(o) : o \in SeqsUpTo(RefElemsF, MaxElems)},
                g \in {NotJson} \cup {JsonFile(o) : o \in SeqsUpTo(RefElemsG, MaxElems)}} :
        Len(d[FPath].obj) + Len(d[GPath].obj) <= MaxRefs}

Rock == List(<<Str(<<"r", "o", "c", "k">>)>>)
Pop == Str(<<"p", "o", "p">>)

\* Elements that differ in their tags: a key declared, inherited, deleted
\* by an empty list, overridden, written in another case, and declared twice
\* in one object
TagElems == {
    <<At(<<"a.flac">>), <<"Genre", Rock>>>>,
    <<At(<<"b.flac">>)>>,
    <<At(<<"b.flac">>), <<"genre", EmptyList>>>>,
    <<At(<<"b.flac">>), <<"GENRE", Pop>>>>,
    <<At(<<"x.zip", "|", "a">>), <<"genre", Rock>>>>,
    <<At(<<"b.flac">>), <<"genre", EmptyList>>, <<"Genre", Rock>>>>,
    <<At(<<"b.flac">>), <<"Genre", Rock>>, <<"genre", EmptyList>>>>,
    <<At(<<"a.flac">>), <<"track", Str(<<"1">>)>>>> }

DisksM == {Disk(JsonFile(o), NotJson) : o \in SeqsUpTo(TagElems, MaxTagElems)}

\* Elements that differ in the values the converters decode
Opt(key, values) == {<<>>} \cup {<<<<key, v>>>> : v \in values}

ConvElems ==
    {<<At(<<"a.flac">>)>> \o d \o y \o t \o n \o c \o r :
        d \in Opt("Date", {Str(<<"1", "9", "9", "9">>),
                           Str(<<"1", "9", "9", "9", "-", "0", "5", "-", "0", "3">>),
                           Str(<<"1", "9", "9", "9", "0", "5", "0", "3">>),
                           Str(<<"x">>)}),
        y \in Opt("year", {Str(<<"2", "0", "0", "1">>)}),
        t \in Opt("Track", {Str(<<"1">>), Str(<<"x">>), IntVal(7)}),
        n \in Opt("tracknumber", {Str(<<"9">>)}),
        c \in Opt("compilation", {Str(<<>>), Str(<<"N", "o">>), Str(<<"F", "A", "L", "S", "E">>),
                                  Str(<<"0">>), Str(<<"y", "e", "s">>)}),
        r \in Opt("replaygain_track_gain", {Str(<<"-", "3", ".", "2", " ", "d", "B">>)})}

DisksC == {Disk(JsonFile(<<e>>), NotJson) : e \in ConvElems}

Init ==
    /\ \/ files \in DisksR
       \/ files \in DisksM
       \/ files \in DisksC
    /\ lib = <<>>
    /\ paths = <<Root>>
    /\ dir = NoDir
    /\ children = {}
    /\ loader = NoLoader
    /\ al = <<>>
    /\ status = "running"
    /\ log = <<>>
    /\ processed = {}

Spec == Init /\ [][Next]_vars

(***************************************************************************)
(* Properties                                                              *)
(***************************************************************************)
\* the turn for an element ended in a yield
Yielded(e) == e.kind \in {"present", "decode", "item"}

\* the JSON object declares a key that folds to k
Declares(item, k) == \E j \in 1..Len(item) : casefoldAtom(item[j][1]) = k

\* the value the JSON object gives the key k: that of its last such pair
Declared(item, k) ==
    item[CHOOSE j \in 1..Len(item) :
            /\ casefoldAtom(item[j][1]) = k
            /\ \A h \in (j + 1)..Len(item) : casefoldAtom(item[h][1]) # k][2]

\* the tag set in effect before element i of the file being read
Before(i) == IF i = 1 THEN EmptyDict ELSE log[i - 1].tagset

KeysAt(i) ==
    (DOMAIN Before(i) \cup DOMAIN log[i].data
        \cup {casefoldAtom(loader.obj[i][j][1]) : j \in 1..Len(loader.obj[i])}) \ {"@"}

\* C1: the tag set yielded for an element is the tag set in effect at the
\* element before it overlaid with the element's own case-folded keys, less
\* every key whose merged value is the empty list: a key the element declares
\* has the declared value, or is absent when that value is []; a key it does
\* not declare is as it was before, present or absent; '@' is never yielded.
C1_CumulativeMerge ==
    loader # NoLoader =>
        \A i \in 1..Len(log) : Yielded(log[i]) =>
            /\ "@" \notin DOMAIN log[i].data
            /\ \A k \in KeysAt(i) :
                IF Declares(loader.obj[i], k)
                THEN IF Declared(loader.obj[i], k) = EmptyList
                     THEN k \notin DOMAIN log[i].data
                     ELSE k \in DOMAIN log[i].data
                          /\ log[i].data[k] = Declared(loader.obj[i], k)
                ELSE IF k \in DOMAIN Before(i)
                     THEN k \in DOMAIN log[i].data /\ log[i].data[k] = Before(i)[k]
                     ELSE k \notin DOMAIN log[i].data

\* a key declared by the first element, deleted by the second with an empty
\* list, and still absent from the third, which does not declare it
C1_Witness ==
    /\ loader # NoLoader /\ Len(log) = 3
    /\ \A i \in 1..3 : Yielded(log[i])
    /\ "genre" \in DOMAIN log[1].data
    /\ Declares(loader.obj[2], "genre") /\ "genre" \notin DOMAIN log[2].data
    /\ ~Declares(loader.obj[3], "genre") /\ "genre" \notin DOMAIN log[3].data

\* the reference has a bar, and what follows its first bar is no integer
Unsupported(ref) ==
    /\ ref.t = "str"
    /\ \E i \in 1..Len(ref.v) :
        /\ ref.v[i] = "|"
        /\ \A j \in 1..(i - 1) : ref.v[j] # "|"
        /\ Raised(int(Str(SubSeq(ref.v, i + 1, Len(ref.v)))))

\* the walk was left by an exception
Failed == status \notin {"running", "done", "returned"}

\* C3: an entry whose reference has a '|' whose right part is no integer is
\* skipped: the turn yields nothing and raises nothing, and items() goes on
\* to the elements after it.
C3_UnsupportedSkipped ==
    \A i \in 1..Len(log) : Unsupported(log[i].ref) => log[i].kind = "skip"

\* C4: an element that declares no '@' key is skipped: the turn yields
\* nothing and raises nothing.
C4_MissingKeySkipped ==
    loader # NoLoader =>
        \A i \in 1..Len(log) :
            ~Declares(loader.obj[i], "@") => ~Yielded(log[i]) /\ log[i].kind # "raise"

\* the reference is path|n with n an integer: the file it points into
Indexed(ref) ==
    /\ ref.t = "str"
    /\ Len(split(ref.v, "|")) = 2
    /\ ~Raised(int(Str(split(ref.v, "|")[2])))

IndexOf(ref) == int(Str(split(ref.v, "|")[2])).v

TargetOf(self, ref) == resolve(join(parent(self), split(ref.v, "|")[1]))

\* the elements parsed from the file at path p
Parsed(p) == IF p \in DOMAIN files /\ files[p].json THEN files[p].obj ELSE <<>>

\* every element parsed from the file at path p declares its '@' key
WellFormed(p) == \A j \in 1..Len(Parsed(p)) : Declares(Parsed(p)[j], "@")

\* C2: resolving 'f.tags|n', n from 1 to the number of elements parsed from
\* f.tags, returns the path that resolving the reference stored in the n-th
\* parsed element returns, relative to the directory of f.tags, whatever the
\* other elements of f.tags refer to; stated for the files whose elements
\* all declare '@' and for the resolutions that end.
C2_RoundTrip ==
    loader # NoLoader =>
        \A i \in 1..Len(log) :
            (/\ Indexed(log[i].ref)
             /\ endswith_tags(TargetOf(loader.path, log[i].ref))
             /\ WellFormed(TargetOf(loader.path, log[i].ref))
             /\ IndexOf(log[i].ref) \in 1..Len(Parsed(TargetOf(loader.path, log[i].ref)))
             /\ ~IsRaise(log[i].out, "RecursionError"))
            => LET target == TargetOf(loader.path, log[i].ref)
                   nth == Parsed(target)[IndexOf(log[i].ref)]
               IN  ~Raised(_resolve_path(target, Declared(nth, "@").v, {}))
                   => log[i].out = _resolve_path(target, Declared(nth, "@").v, {})

\* C5: resolving 'f.tags|n' when f.tags has fewer than n entries fails with
\* LookupError (KeyError is one), and no record is produced for the entry;
\* stated for the resolutions that end.
C5_NotFound ==
    loader # NoLoader =>
        \A i \in 1..Len(log) :
            (/\ Indexed(log[i].ref)
             /\ endswith_tags(TargetOf(loader.path, log[i].ref))
             /\ IndexOf(log[i].ref) > Len(Parsed(TargetOf(loader.path, log[i].ref)))
             /\ ~IsRaise(log[i].out, "RecursionError"))
            => log[i].kind = "raise" /\ log[i].out.v \in {"LookupError", "KeyError"}

\* the tag set in effect at element n of a parsed array
RECURSIVE TagsetAt(_, _)
TagsetAt(obj, n) ==
    IF n = 0 THEN EmptyDict ELSE prune(update(TagsetAt(obj, n - 1), folded(obj[n])))

\* the reference chain from ref, read by the loader at path self, reaches a
\* direct reference without coming back to an entry it went through: each
\* indexed reference is followed to the reference of the entry it selects
RECURSIVE ReachesDirect(_, _, _)
ReachesDirect(self, ref, seen) ==
    IF ref.t = "str" /\ Len(split(ref.v, "|")) = 1 THEN TRUE
    ELSE IF ~Indexed(ref) \/ ~endswith_tags(TargetOf(self, ref)) THEN FALSE
    ELSE LET target == TargetOf(self, ref)
             n == IndexOf(ref)
         IN  IF n \notin 1..Len(Parsed(target)) \/ <<target, n>> \in seen THEN FALSE
             ELSE IF "@" \notin DOMAIN TagsetAt(Parsed(target), n) THEN FALSE
             ELSE ReachesDirect(target, TagsetAt(Parsed(target), n)["@"],
                                seen \cup {<<target, n>>})

\* C10: resolving a reference ends whenever its reference chain reaches a
\* direct reference after finitely many steps.
C10_Terminates ==
    loader # NoLoader =>
        \A i \in 1..Len(log) :
            (log[i].ref.t = "str" /\ ReachesDirect(loader.path, log[i].ref, {<<loader.path, i>>}))
            => ~IsRaise(log[i].out, "RecursionError")


\* C6: a file that is unreadable or no well-formed JSON yields no entry and
\* raises nothing: while its loader lives the walk is running with nothing
\* yielded and nothing collected, the walk can go on to the next file, and
\* the library never holds an album read from such a file.
C6_ParseFailureIsolated ==
    /\ \A i \in 1..Len(lib) : files[lib[i].file].json
    /\ (loader # NoLoader /\ ~files[loader.path].json) =>
        /\ status = "running"
        /\ loader.obj = <<>> /\ log = <<>> /\ al = <<>>
        /\ ENABLED EndFile

\* f.tags did not load, and the walk went on to g.tags and added its album
C6_Witness ==
    /\ FPath \in processed /\ ~files[FPath].json
    /\ GPath \in processed /\ Len(lib) = 1 /\ lib[1].file = GPath
    /\ status = "done"

\* work the walk has yet to do
Pending == children # {} \/ paths # <<>>

\* g.tags holds elements and the walk has yet to read it
PendingFile == Pending /\ GPath \notin processed /\ Parsed(GPath) # <<>>

\* the turn of the last element read raised out of items()
ResolutionFailed == log # <<>> /\ Last(log).kind = "raise"

\* the reference selects an element past the last one of its target
PastTheEnd(ref) ==
    /\ Indexed(ref)
    /\ endswith_tags(TargetOf(loader.path, ref))
    /\ IndexOf(ref) > Len(Parsed(TargetOf(loader.path, ref)))

\* C7: a failure of reference resolution raised while one sidecar file is
\* processed affects only that file or entry: the walk does not stop while
\* a file is pending; stated for the not-found failure of a reference that
\* selects an element past the last one of its target.
C7_FailureIsolated ==
    (ResolutionFailed /\ PastTheEnd(Last(log).ref) /\ PendingFile) => ENABLED Next

\* the reference is path|x with exactly one bar and x no integer
OneBarNoInteger(ref) ==
    /\ ref.t = "str"
    /\ Len(split(ref.v, "|")) = 2
    /\ Raised(int(Str(split(ref.v, "|")[2])))

\* C7 as amended: only a file that does not load and an entry skipped for its
\* unsupported reference (one bar, no integer after it) are isolated: neither
\* stops the walk, and a walk that is not stopped processes every file.  Any
\* other failure of reference resolution leaves items() and _import_mtags:
\* the walk ends with that exception, nothing more is processed, and the
\* file's album is not handed to the library.
C7_OnlySkipsIsolated ==
    /\ \A i \in 1..Len(log) :
        OneBarNoInteger(log[i].ref) =>
            log[i].kind = "skip" /\ (i = Len(log) => ~Failed)
    /\ (loader # NoLoader /\ ~files[loader.path].json) => ~Failed
    /\ status = "done" => processed = {FPath, GPath} /\ ~Pending
    /\ ResolutionFailed =>
        /\ status = Last(log).out.v
        /\ ~ENABLED Next
        /\ \A i \in 1..Len(lib) : lib[i].file # loader.path

\* a not-found failure in f.tags stopped the walk before g.tags was read
C7_Witness ==
    /\ ResolutionFailed /\ status = "LookupError" /\ PastTheEnd(Last(log).ref)
    /\ loader.path = FPath /\ PendingFile

\* the raw value of the first alias of the 'date' field that is present
RawDate(data) ==
    IF "date" \in DOMAIN data THEN data["date"]
    ELSE IF "year" \in DOMAIN data THEN data["year"]
    ELSE None

Absent(item, fields) == \A f \in fields : f \notin DOMAIN item

\* the fields of an entry whose date was read as the year y alone
YearOnly(e, y) ==
    /\ e.values["date"] = MTagDate(y, 1, 1, FALSE)
    /\ e.item.v["year"] = IntVal(y)
    /\ Absent(e.item.v, {"month", "day"})
    /\ e.item.v["date"] = Date(y, 1, 1)

\* the fields of an entry whose date was parsed as the full date d
FullDate(e, d) ==
    /\ ~Raised(d)
    /\ e.values["date"] = MTagDate(d.v.year, d.v.month, d.v.day, TRUE)
    /\ e.item.v["year"] = IntVal(d.v.year)
    /\ e.item.v["month"] = IntVal(d.v.month)
    /\ e.item.v["day"] = IntVal(d.v.day)
    /\ e.item.v["date"] = d

NoDate(e) == Absent(e.item.v, {"date", "year", "month", "day"})

\* C8: a raw date that parses as an integer y gives a year-only date: year y,
\* month and day absent; any other raw date is parsed as a full date that
\* gives year, month and day; the stored date is the plain calendar date;
\* without a date alias the dependent fields are absent.
C8_DatePrecision ==
    \A i \in 1..Len(log) : log[i].kind = "item" =>
        IF RawDate(log[i].data).t = "none" THEN NoDate(log[i])
        ELSE IF ~Raised(int(RawDate(log[i].data)))
        THEN YearOnly(log[i], int(RawDate(log[i].data)).v)
        ELSE FullDate(log[i], dateutil_parse(RawDate(log[i].data)))

\* C8 as amended: the year-only date is given by a raw date that parses as an
\* integer y from MINYEAR to MAXYEAR; any other raw date, an integer outside
\* that range included, is parsed as a full date.
C8_DatePrecisionInRange ==
    \A i \in 1..Len(log) : log[i].kind = "item" =>
        IF RawDate(log[i].data).t = "none" THEN NoDate(log[i])
        ELSE IF /\ ~Raised(int(RawDate(log[i].data)))
                /\ int(RawDate(log[i].data)).v \in MINYEAR..MAXYEAR
        THEN YearOnly(log[i], int(RawDate(log[i].data)).v)
        ELSE FullDate(log[i], dateutil_parse(RawDate(log[i].data)))

\* the raw date "1999" gave the year 1999 and neither month nor day
C8_Witness ==
    \E i \in 1..Len(log) :
        /\ log[i].kind = "item"
        /\ RawDate(log[i].data) = Str(<<"1", "9", "9", "9">>)
        /\ log[i].item.v["year"] = IntVal(1999)
        /\ Absent(log[i].item.v, {"month", "day"})

AnyPresent(c, data) == \E j \in 1..Len(c.tags) : c.tags[j] \in DOMAIN data

\* the value of the first alias, in declaration order, that is a key of data
FirstPresent(c, data) ==
    data[c.tags[MinOf({j \in 1..Len(c.tags) : c.tags[j] \in DOMAIN data})]]

\* what the loop over TAGS left in values for the converter c
Got(c, e) ==
    IF AnyPresent(c, e.data)
    THEN c.tag \in DOMAIN e.values /\ e.values[c.tag] = decode(c.conv, FirstPresent(c, e.data))
    ELSE c.tag \notin DOMAIN e.values

\* C9: Converter.get returns the decoded value of the first alias that is a
\* key of the tag set, whatever the later aliases hold, and None exactly when
\* no alias is a key: for an entry converted whole, every field is so; for an
\* entry where a decode raised, the exception is that of the first alias
\* present of the first field whose decode raises, and the fields before it
\* are so.
C9_AliasPrecedence ==
    \A i \in 1..Len(log) :
        /\ log[i].kind = "item" => \A n \in 1..Len(TAGS) : Got(TAGS[n], log[i])
        /\ log[i].kind = "decode" =>
            \E n \in 1..Len(TAGS) :
                /\ AnyPresent(TAGS[n], log[i].data)
                /\ log[i].item = decode(TAGS[n].conv, FirstPresent(TAGS[n], log[i].data))
                /\ \A m \in 1..(n - 1) : Got(TAGS[m], log[i])
                /\ \A m \in n..Len(TAGS) : TAGS[m].tag \notin DOMAIN log[i].values

\* both track and tracknumber were present and the track field is that of
\* track
C9_Witness ==
    \E i \in 1..Len(log) :
        /\ log[i].kind = "item"
        /\ {"track", "tracknumber"} \subseteq DOMAIN log[i].data
        /\ log[i].data["track"] = Str(<<"1">>)
        /\ log[i].data["tracknumber"] = Str(<<"9">>)
        /\ log[i].values["track"] = IntVal(1)

====
